---- MODULE Spec2Model ----
(***************************************************************************)
(* Model of the nexus server (src/nexus/server/src/main.rs): the accept     *)
(* loop of main, and for every accepted connection one NexusBackend with   *)
(* its catalog handle, its PeerCursors table and its executor cache.  A    *)
(* request is one call of SimpleQueryHandler::do_query (-> handle_query)    *)
(* or of ExtendedQueryHandler::do_describe; it is cut at its .await points *)
(* and req[s][r].pc is the await it is suspended at.                        *)
(***************************************************************************)
EXTENDS Integers, Sequences, FiniteSets, TLC

\* ------------------------------------------------------------------ bounds
MaxSessions == 2
MaxInflight == 2
MaxStmts == 5
MaxConcurrentStmts == 2
MaxExtendedStmts == 2
MaxConnectionStmts == 3
MaxParams == 10

Sessions == 1..MaxSessions
Requests == 1..MaxInflight

\* ------------------------------------------------------------------ values
\* pt::peers::Peer {name, config: Option<Config>}.  "OtherConfig" stands for any
\* Config variant besides BigqueryConfig and PostgresConfig, "None" for config: None.
NoPeer == [name |-> "", config |-> "None"]
Peers == { [name |-> "pg", config |-> "PostgresConfig"],
           [name |-> "bq", config |-> "BigqueryConfig"],
           [name |-> "ot", config |-> "OtherConfig"],
           [name |-> "nc", config |-> "None"] }
PeerNames == { p.name : p \in Peers }
CursorNames == {"c1", "c2"}
RowCounts == {0, 7}
Causes == {"duplicate peer", "connection closed"}

\* Arc<Box<dyn QueryExecutor>>: a handle is the peer it was built for and the
\* number of the construction that built it (pointer identity).
NoExecutor == [peer |-> "", id |-> 0]
CatalogExecutor == [peer |-> "catalog", id |-> 0]
Handle(name, n) == [peer |-> name, id |-> n]

\* NexusStatement as produced by the analyzer.
NoStmt == [kind |-> "none", ddl |-> "-", assoc |-> "-", peer |-> NoPeer, event |-> "-", cursor |-> ""]
PeerDDLStmts ==
  { [kind |-> "PeerDDL", ddl |-> "CreatePeer", assoc |-> "-", peer |-> p, event |-> "-", cursor |-> ""] : p \in Peers }
PeerQueryStmts ==
  { [kind |-> "PeerQuery", ddl |-> "-", assoc |-> "Peer", peer |-> p, event |-> "-", cursor |-> ""] : p \in Peers }
  \cup { [kind |-> "PeerQuery", ddl |-> "-", assoc |-> "Catalog", peer |-> NoPeer, event |-> "-", cursor |-> ""] }
PeerCursorStmts ==
  { [kind |-> "PeerCursor", ddl |-> "-", assoc |-> "-", peer |-> NoPeer, event |-> e, cursor |-> c] :
      e \in {"Fetch", "Close"}, c \in CursorNames }
  \cup { [kind |-> "PeerCursor", ddl |-> "-", assoc |-> "-", peer |-> NoPeer, event |-> "CloseAll", cursor |-> ""] }
Statements == PeerDDLStmts \cup PeerQueryStmts \cup PeerCursorStmts

\* peer_cursor::QueryOutput as returned by QueryExecutor::execute, and Err.
\* convert_ok: whether the response translation of a Stream/Records succeeds.
NoOutput == [tag |-> "none", rows |-> 0, names |-> {}, convert_ok |-> TRUE]
QueryOutputs ==
  { [tag |-> "AffectedRows", rows |-> n, names |-> {}, convert_ok |-> TRUE] : n \in RowCounts }
  \cup { [tag |-> t, rows |-> 0, names |-> {}, convert_ok |-> b] : t \in {"Stream", "Records"}, b \in BOOLEAN }
  \cup { [tag |-> "Created", rows |-> 0, names |-> {c}, convert_ok |-> TRUE] : c \in CursorNames }
  \cup { [tag |-> "Closed", rows |-> 0, names |-> S, convert_ok |-> TRUE] : S \in SUBSET CursorNames }
ExecuteOutcomes ==
  QueryOutputs \cup { [tag |-> "Err", rows |-> 0, names |-> {}, convert_ok |-> TRUE] }

\* PgWireResult<Vec<Response>> / PgWireResult<DescribeResponse>.
NoResult == [status |-> "none", responses |-> << >>, code |-> "", message |-> ""]
OkResult(responses) == [status |-> "ok", responses |-> responses, code |-> "", message |-> ""]
ErrResult(code, message) == [status |-> "err", responses |-> << >>, code |-> code, message |-> message]
\* Response::Execution(Tag::new_for_execution(tag, rows)); rows = -1 is None.
Execution(tag, rows) == [type |-> "Execution", tag |-> tag, rows |-> rows]
QueryResponse(kind) == [type |-> "Query", tag |-> kind, rows |-> -1]
NoData == [type |-> "NoData", tag |-> "", rows |-> -1]

\* Text (String) is a sequence of characters.  Portal<NexusParsedStatement>: the
\* prepared statement's text (stmt.query), the statement the analyzer made of it, and
\* per parameter its declared Type and bound value.  A bound value is "null", bytes
\* that portal.parameter::<T>() fails to decode ("undecodable"), or a value: a string
\* (text), an integer (int), a bool, or a float given as its shortest decimal
\* expansion int.frac (frac = 0: no fraction).
Param(type, state, text, int, bool, frac) ==
  [type |-> type, state |-> state, text |-> text, int |-> int, bool |-> bool, frac |-> frac]
TextParam(type, text) == Param(type, "value", text, 0, FALSE, 0)
IntParam(type, n) == Param(type, "value", << >>, n, FALSE, 0)
BoolParam(b) == Param("BOOL", "value", << >>, 0, b, 0)
FloatParam(type, n, frac) == Param(type, "value", << >>, n, FALSE, frac)
NullParam(type) == Param(type, "null", << >>, 0, FALSE, 0)
UndecodableParam(type) == Param(type, "undecodable", << >>, 0, FALSE, 0)
NoPortal == [query |-> << >>, params |-> << >>, stmt |-> NoStmt]

\* ------------------------------------------------------------------ state
VARIABLES
  acceptor,     \* main's accept loop: "running" or "terminated" (main returned Err)
  status,       \* per connection: "pending", "open", "refused", "panicked"
  catalogPeers, \* peer names persisted in the catalog database (shared by all connections)
  cursors,      \* per connection: PeerCursors, cursor name -> Peer
  executors,    \* per connection: DashMap peer name -> executor handle
  constructed,  \* per connection and peer name: executors built by get_peer_executor
  catalogLock,  \* per connection: request holding Mutex<Catalog>, 0 if free
  cursorLock,   \* per connection: request holding Mutex<PeerCursors>, 0 if free
  req,          \* per connection and request slot: the request's locals and position
  stmts,        \* requests started so far (all connections)
  created       \* per connection, history of the executors' cursor reports:
                \* by[name]: the peers whose queries returned Created(name) since the
                \* name was last reported Closed; closed: the names reported Closed
                \* and not reported Created since

vars == << acceptor, status, catalogPeers, cursors, executors, constructed,
           catalogLock, cursorLock, req, stmts, created >>

Empty == << >>

\* A request's locals: the extended do_query's portal and the sql it substituted
\* into, handle_query's nexus_stmt and peer_holder, get_peer_executor's
\* peer argument, the executor it resolved, the QueryOutput it got, what it returned
\* (result) or how it panicked (fault), the error create_peer failed with (cause),
\* and the tables as they were when it started.
IdleReq == [pc |-> "idle", api |-> "none", stmt |-> NoStmt, peer_holder |-> NoPeer,
            executor |-> NoExecutor, res |-> NoOutput, result |-> NoResult,
            peer |-> NoPeer, fault |-> "none", cause |-> "",
            preCursors |-> Empty, preExecutors |-> Empty,
            portal |-> NoPortal, sql |-> << >>]

\* NexusBackend::new: empty PeerCursors, empty DashMap, unlocked mutexes.
Init ==
  /\ acceptor = "running"
  /\ status = [s \in Sessions |-> "pending"]
  /\ catalogPeers = {}
  /\ cursors = [s \in Sessions |-> Empty]
  /\ executors = [s \in Sessions |-> Empty]
  /\ constructed = [s \in Sessions |-> [n \in PeerNames |-> 0]]
  /\ catalogLock = [s \in Sessions |-> 0]
  /\ cursorLock = [s \in Sessions |-> 0]
  /\ req = [s \in Sessions |-> [r \in Requests |-> IdleReq]]
  /\ stmts = 0
  /\ created = [s \in Sessions |-> [by |-> [c \in CursorNames |-> {}], closed |-> {}]]

\* ------------------------------------------------------------------ helpers
\* cursor::PeerCursors (mod cursor): a table from cursor name to owning peer.
add_cursor(t, name, peer) ==
  [x \in (DOMAIN t) \cup {name} |-> IF x = name THEN peer ELSE t[x]]
remove_cursor(t, name) == [x \in (DOMAIN t) \ {name} |-> t[x]]
get_peer(t, name) == IF name \in DOMAIN t THEN t[name] ELSE NoPeer

\* The loop stops after the first name.
remove_cursors_first(t, names) ==
  IF names = {} THEN t ELSE remove_cursor(t, CHOOSE x \in names : TRUE)

\* for cursor_name in cursors { peer_cursors.remove_cursor(cursor_name) }
RECURSIVE remove_cursors(_, _)
remove_cursors(t, names) ==
  IF names = {} THEN t
  ELSE LET n == CHOOSE x \in names : TRUE
       IN remove_cursors(remove_cursor(t, n), names \ {n})

\* A lookup that never finds the entry.
executors_get_miss(m, name) == NoExecutor

\* self.executors.get(&peer.name) / self.executors.insert(peer.name, executor)
executors_get(m, name) == IF name \in DOMAIN m THEN m[name] ELSE NoExecutor
executors_insert(m, name, h) ==
  [x \in (DOMAIN m) \cup {name} |-> IF x = name THEN h ELSE m[x]]

\* match &peer.config in get_peer_executor: the variants it builds an executor for.
executor_config_supported(peer) == peer.config \in {"BigqueryConfig", "PostgresConfig"}
\* match &peer.config in do_describe.
describe_config_supported(peer) == peer.config = "BigqueryConfig"

\* The connection's handler task runs and request r is suspended at pc.
At(s, r, pc) ==
  /\ acceptor = "running"
  /\ status[s] = "open"
  /\ req[s][r].pc = pc

Unlock(lock, s, r) == IF lock[s] = r THEN [lock EXCEPT ![s] = 0] ELSE lock

\* A panic unwinds the handler: every guard the request holds is dropped, no
\* response is produced and the connection's task ends.
Panic(s, r, rec, fault) ==
  /\ req' = [req EXCEPT ![s][r] = [rec EXCEPT !.pc = "panicked", !.fault = fault]]
  /\ status' = [status EXCEPT ![s] = "panicked"]
  /\ catalogLock' = Unlock(catalogLock, s, r)
  /\ cursorLock' = Unlock(cursorLock, s, r)

\* Response::EmptyQuery
EmptyQuery == [type |-> "EmptyQuery", tag |-> "", rows |-> -1]

\* if result.is_empty() { EmptyQuery } else { result.into_iter().next().unwrap() }
first_response(result) ==
  IF result.status # "ok" THEN result
  ELSE IF result.responses = << >> THEN OkResult(<< EmptyQuery >>)
  ELSE OkResult(<< Head(result.responses) >>)

\* The request returns `result` to the protocol library; the extended do_query
\* returns its first response.
Return(s, r, rec, result) ==
  req' = [req EXCEPT ![s][r] =
            [rec EXCEPT !.pc = "done",
                        !.result = IF rec.api = "extended" THEN first_response(result)
                                                           ELSE result]]

Goto(s, r, rec, pc) == req' = [req EXCEPT ![s][r] = [rec EXCEPT !.pc = pc]]

\* ------------------------------------------------------------------ main
\* One iteration of main's loop: accept, Catalog::new, then either spawn the
\* connection handler or write the FATAL frame, shut the socket down and continue;
\* `?` on write_all/shutdown returns from main.
Accept(s, catalog_ok, write_ok, shutdown_ok) ==
  /\ acceptor = "running"
  /\ status[s] = "pending"
  /\ \A t \in Sessions : t < s => status[t] # "pending"
  /\ IF catalog_ok
       THEN /\ status' = [status EXCEPT ![s] = "open"]
            /\ UNCHANGED acceptor
       ELSE /\ status' = [status EXCEPT ![s] = "refused"]
            /\ acceptor' = IF write_ok /\ shutdown_ok THEN "running" ELSE "terminated"
  /\ UNCHANGED << catalogPeers, cursors, executors, constructed, catalogLock,
                  cursorLock, req, stmts, created >>

\* ------------------------------------------------------------------ dispatch
\* pc of handle_query's first await for each statement.
first_await(stmt) ==
  CASE stmt.kind = "PeerDDL" -> "ddl_lock"
    [] stmt.kind = "PeerQuery" /\ stmt.assoc = "Peer" -> "peer_executor"
    [] stmt.kind = "PeerQuery" /\ stmt.assoc = "Catalog" -> "catalog_executor"
    [] OTHER -> "cursor_lock"

\* SimpleQueryHandler::do_query: parse, then handle_query up to its first await.
\* For PeerQuery with Peer(peer): peer_holder = Some(peer.clone()).
do_query(s, r, stmt) ==
  /\ acceptor = "running"
  /\ status[s] = "open"
  /\ req[s][r].pc \in {"idle", "done"}
  /\ stmts < MaxStmts
  /\ stmts' = stmts + 1
  /\ req' = [req EXCEPT ![s][r] =
       [IdleReq EXCEPT !.pc = first_await(stmt), !.api = "query", !.stmt = stmt,
                       !.peer_holder = IF stmt.assoc = "Peer" THEN stmt.peer ELSE NoPeer,
                       !.peer = IF stmt.assoc = "Peer" THEN stmt.peer ELSE NoPeer,
                       !.preCursors = cursors[s], !.preExecutors = executors[s]]]
  /\ UNCHANGED << acceptor, status, catalogPeers, cursors, executors, constructed,
                  catalogLock, cursorLock, created >>

\* PeerDDL::CreatePeer: let catalog = self.catalog.lock().await
handle_query_CreatePeer_lock(s, r) ==
  /\ At(s, r, "ddl_lock")
  /\ catalogLock[s] = 0
  /\ catalogLock' = [catalogLock EXCEPT ![s] = r]
  /\ Goto(s, r, req[s][r], "ddl_create")
  /\ UNCHANGED << acceptor, status, catalogPeers, cursors, executors, constructed,
                  cursorLock, stmts, created >>

\* The error is replaced by a fixed message: the cause is lost.
create_peer_result_no_cause(ok, cause) ==
  IF ok THEN OkResult(<< Execution("OK", -1) >>)
        ELSE ErrResult("internal_error", "create peer failed")

\* catalog.create_peer(..).await.map_err(UserError(internal_error, e.to_string()))?
create_peer_result(ok, cause) ==
  IF ok THEN OkResult(<< Execution("OK", -1) >>)
        ELSE ErrResult("internal_error", cause)

\* The catalog guard is dropped when the arm is left, by `?` or by Ok(..).
handle_query_CreatePeer(s, r, ok, cause) ==
  /\ At(s, r, "ddl_create")
  /\ catalogPeers' = IF ok THEN catalogPeers \cup {req[s][r].stmt.peer.name} ELSE catalogPeers
  /\ catalogLock' = Unlock(catalogLock, s, r)
  /\ Return(s, r, [req[s][r] EXCEPT !.cause = IF ok THEN "" ELSE cause],
            create_peer_result(ok, cause))
  /\ UNCHANGED << acceptor, status, cursors, executors, constructed, cursorLock,
                  stmts, created >>

\* The catalog guard is kept while execute_statement runs.
handle_query_Catalog_hold(s, r) ==
  /\ At(s, r, "catalog_executor")
  /\ catalogLock[s] = 0
  /\ catalogLock' = [catalogLock EXCEPT ![s] = r]
  /\ Goto(s, r, [req[s][r] EXCEPT !.executor = CatalogExecutor], "execute")
  /\ UNCHANGED << acceptor, status, catalogPeers, cursors, executors, constructed,
                  cursorLock, stmts, created >>

\* QueryAssocation::Catalog: let catalog = self.catalog.lock().await; catalog.get_executor()
\* The guard is dropped at the end of the arm, before execute_statement.
handle_query_Catalog(s, r) ==
  /\ At(s, r, "catalog_executor")
  /\ catalogLock[s] = 0
  /\ Goto(s, r, [req[s][r] EXCEPT !.executor = CatalogExecutor], "execute")
  /\ UNCHANGED << acceptor, status, catalogPeers, cursors, executors, constructed,
                  catalogLock, cursorLock, stmts, created >>

\* Every cursor statement goes to the catalog's executor.
cursor_route_catalog(peer) == "cursor_catalog"

\* match peer { None => the catalog's executor, Some(peer) => get_peer_executor(peer) }
cursor_route(peer) == IF peer = NoPeer THEN "cursor_catalog" ELSE "peer_executor"

\* NexusStatement::PeerCursor: let peer_cursors = self.peer_cursors.lock().await, then
\* the match on the cursor event.  CloseAll is todo!().  The guard stays held while
\* the executor is resolved (the block's value borrows from it).
handle_query_PeerCursor(s, r) ==
  /\ At(s, r, "cursor_lock")
  /\ cursorLock[s] = 0
  /\ LET rec == req[s][r]
         peer == get_peer(cursors[s], rec.stmt.cursor)
     IN IF rec.stmt.event = "CloseAll"
          THEN Panic(s, r, rec, "todo: close all cursors")
          ELSE /\ cursorLock' = [cursorLock EXCEPT ![s] = r]
               /\ Goto(s, r, [rec EXCEPT !.peer = peer], cursor_route(peer))
               /\ UNCHANGED << status, catalogLock >>
  /\ UNCHANGED << acceptor, catalogPeers, cursors, executors, constructed, stmts, created >>

\* None => { let catalog = self.catalog.lock().await; catalog.get_executor() }
\* Both guards are dropped when the block ends.
handle_query_PeerCursor_catalog(s, r) ==
  /\ At(s, r, "cursor_catalog")
  /\ catalogLock[s] = 0
  /\ cursorLock' = Unlock(cursorLock, s, r)
  /\ Goto(s, r, [req[s][r] EXCEPT !.executor = CatalogExecutor], "execute")
  /\ UNCHANGED << acceptor, status, catalogPeers, cursors, executors, constructed,
                  catalogLock, stmts, created >>

\* get_peer_executor up to its first await: the cache lookup, and on a miss the match
\* on peer.config.  On a hit it returns; the caller's block ends (cursor guard dropped).
get_peer_executor(s, r) ==
  /\ At(s, r, "peer_executor")
  /\ LET rec == req[s][r]
         hit == executors_get(executors[s], rec.peer.name)
     IN IF hit # NoExecutor
          THEN /\ cursorLock' = Unlock(cursorLock, s, r)
               /\ Goto(s, r, [rec EXCEPT !.executor = hit], "execute")
               /\ UNCHANGED << status, catalogLock >>
          ELSE IF executor_config_supported(rec.peer)
            THEN /\ Goto(s, r, rec, "construct")
                 /\ UNCHANGED << status, catalogLock, cursorLock >>
            ELSE Panic(s, r, rec, "peer type not supported")
  /\ UNCHANGED << acceptor, catalogPeers, cursors, executors, constructed, stmts, created >>

\* The executor is built and returned but not stored in the cache.
get_peer_executor_construct_uncached(s, r, ok) ==
  /\ At(s, r, "construct")
  /\ LET rec == req[s][r]
         name == rec.peer.name
         h == Handle(name, constructed[s][name] + 1)
     IN IF ok
          THEN /\ constructed' = [constructed EXCEPT ![s][name] = @ + 1]
               /\ cursorLock' = Unlock(cursorLock, s, r)
               /\ Goto(s, r, [rec EXCEPT !.executor = h], "execute")
               /\ UNCHANGED << status, catalogLock >>
          ELSE /\ Panic(s, r, rec, "unwrap on Err: executor construction")
               /\ UNCHANGED constructed
  /\ UNCHANGED << acceptor, catalogPeers, cursors, executors, stmts, created >>

\* BigQueryQueryExecutor::new(c).await.unwrap() / PostgresQueryExecutor::new(..).await.unwrap(),
\* then self.executors.insert(peer.name.clone(), Arc::clone(&executor)).
get_peer_executor_construct(s, r, ok) ==
  /\ At(s, r, "construct")
  /\ LET rec == req[s][r]
         name == rec.peer.name
         h == Handle(name, constructed[s][name] + 1)
     IN IF ok
          THEN /\ constructed' = [constructed EXCEPT ![s][name] = @ + 1]
               /\ executors' = [executors EXCEPT ![s] = executors_insert(@, name, h)]
               /\ cursorLock' = Unlock(cursorLock, s, r)
               /\ Goto(s, r, [rec EXCEPT !.executor = h], "execute")
               /\ UNCHANGED << status, catalogLock >>
          ELSE /\ Panic(s, r, rec, "unwrap on Err: executor construction")
               /\ UNCHANGED << constructed, executors >>
  /\ UNCHANGED << acceptor, catalogPeers, cursors, stmts, created >>

\* execute_statement's translation of the outputs that touch no session state.
translate(out) ==
  CASE out.tag = "Err" -> ErrResult("executor", "execute failed")
    [] out.tag = "AffectedRows" -> OkResult(<< Execution("OK", out.rows) >>)
    [] out.tag \in {"Stream", "Records"} ->
         IF out.convert_ok THEN OkResult(<< QueryResponse(out.tag) >>)
                           ELSE ErrResult("translate", "response translation failed")
    [] OTHER -> NoResult

\* As execute_statement, but an executor whose execute failed is dropped from the cache.
execute_statement_evict(s, r, out) ==
  /\ At(s, r, "execute")
  /\ LET rec == [req[s][r] EXCEPT !.res = out]
     IN IF out.tag \in {"Created", "Closed"}
          THEN Goto(s, r, rec, "cursor_update")
          ELSE Return(s, r, rec, translate(out))
  /\ executors' = IF out.tag = "Err"
                    THEN [executors EXCEPT ![s] =
                            [n \in (DOMAIN @) \ {req[s][r].executor.peer} |-> @[n]]]
                    ELSE executors
  /\ UNCHANGED << acceptor, status, catalogPeers, cursors, constructed,
                  catalogLock, cursorLock, stmts, created >>

\* execute_statement: let res = executor.execute(stmt).await?; then the match on res,
\* up to self.peer_cursors.lock().await for a CursorModification.
execute_statement(s, r, out) ==
  /\ At(s, r, "execute")
  /\ LET rec == [req[s][r] EXCEPT !.res = out]
     IN IF out.tag \in {"Created", "Closed"}
          THEN Goto(s, r, rec, "cursor_update")
          ELSE Return(s, r, rec, translate(out))
  /\ UNCHANGED << acceptor, status, catalogPeers, cursors, executors, constructed,
                  catalogLock, cursorLock, stmts, created >>

\* Closed(names) leaves the table as it is.
apply_cursor_modification_keep(t, cm, peer) ==
  IF cm.tag = "Created"
    THEN add_cursor(t, CHOOSE c \in cm.names : TRUE, peer)
    ELSE t

\* The table after QueryOutput::Cursor(cm), peer_holder being Some(peer).
apply_cursor_modification(t, cm, peer) ==
  IF cm.tag = "Created"
    THEN add_cursor(t, CHOOSE c \in cm.names : TRUE, peer)
    ELSE remove_cursors(t, cm.names)

cursor_modification_result(cm) ==
  IF cm.tag = "Created"
    THEN OkResult(<< Execution("DECLARE CURSOR", -1) >>)
    ELSE OkResult(<< Execution("CLOSE CURSOR", -1) >>)

\* The history of Created/Closed reports; who is the owning peer of a Created is read
\* from the statement's association, not from peer_holder.
created_after(h, cm, stmt) ==
  [by |-> [c \in CursorNames |->
             IF c \notin cm.names THEN h.by[c]
             ELSE IF cm.tag = "Closed" THEN {}
             ELSE h.by[c] \cup {stmt.peer.name}],
   closed |-> IF cm.tag = "Closed" THEN h.closed \cup cm.names ELSE h.closed \ cm.names]

\* One cursor table for the whole server: the change is made in every connection's.
execute_statement_Cursor_shared(s, r) ==
  /\ At(s, r, "cursor_update")
  /\ cursorLock[s] = 0
  /\ LET rec == req[s][r]
     IN IF rec.res.tag = "Created" /\ rec.peer_holder = NoPeer
          THEN /\ Panic(s, r, rec, "unwrap on None: peer_holder")
               /\ UNCHANGED << cursors, created >>
          ELSE /\ cursors' = [t \in Sessions |->
                                apply_cursor_modification(cursors[t], rec.res, rec.peer_holder)]
               /\ created' = [created EXCEPT ![s] = created_after(@, rec.res, rec.stmt)]
               /\ Return(s, r, rec, cursor_modification_result(rec.res))
               /\ UNCHANGED << status, catalogLock, cursorLock >>
  /\ UNCHANGED << acceptor, catalogPeers, executors, constructed, stmts >>

\* QueryOutput::Cursor(cm): under the peer_cursors guard, add_cursor(name,
\* peer_holder.unwrap()) or remove_cursor for each closed name.
execute_statement_Cursor(s, r) ==
  /\ At(s, r, "cursor_update")
  /\ cursorLock[s] = 0
  /\ LET rec == req[s][r]
     IN IF rec.res.tag = "Created" /\ rec.peer_holder = NoPeer
          THEN /\ Panic(s, r, rec, "unwrap on None: peer_holder")
               /\ UNCHANGED << cursors, created >>
          ELSE /\ cursors' = [cursors EXCEPT ![s] =
                                apply_cursor_modification(@, rec.res, rec.peer_holder)]
               /\ created' = [created EXCEPT ![s] = created_after(@, rec.res, rec.stmt)]
               /\ Return(s, r, rec, cursor_modification_result(rec.res))
               /\ UNCHANGED << status, catalogLock, cursorLock >>
  /\ UNCHANGED << acceptor, catalogPeers, executors, constructed, stmts >>

\* ------------------------------------------------------------------ describe
\* An executor do_describe builds for itself; it is never put in the cache.
DescribeExecutor(name) == Handle(name, -1)

describe_first_await(stmt) ==
  IF stmt.assoc = "Peer" THEN "describe_construct" ELSE "describe_catalog_lock"

describe_no_data_ddl_only(stmt) == stmt.kind = "PeerDDL"

\* The arms of do_describe that answer no_data at once:
\* NexusStatement::PeerDDL { .. } and NexusStatement::PeerCursor { .. }.
describe_no_data(stmt) == stmt.kind \in {"PeerDDL", "PeerCursor"}

\* ExtendedQueryHandler::do_describe up to its first await (for a statement or a
\* portal alike): no_data for PeerDDL and PeerCursor; for PeerQuery the match on the
\* association and, for a peer, on peer.config.
do_describe(s, r, stmt) ==
  /\ acceptor = "running"
  /\ status[s] = "open"
  /\ req[s][r].pc \in {"idle", "done"}
  /\ stmts < MaxStmts
  /\ stmts' = stmts + 1
  /\ LET rec == [IdleReq EXCEPT !.api = "describe", !.stmt = stmt, !.peer = stmt.peer,
                                !.preCursors = cursors[s], !.preExecutors = executors[s]]
     IN IF describe_no_data(stmt)
          THEN /\ Return(s, r, rec, OkResult(<< NoData >>))
               /\ UNCHANGED << status, catalogLock, cursorLock >>
          ELSE IF stmt.assoc = "Peer" /\ ~describe_config_supported(stmt.peer)
            THEN Panic(s, r, rec, "peer type not supported")
            ELSE /\ Goto(s, r, rec, describe_first_await(stmt))
                 /\ UNCHANGED << status, catalogLock, cursorLock >>
  /\ UNCHANGED << acceptor, catalogPeers, cursors, executors, constructed, created >>

\* The executor built for the describe is put in the connection's cache.
do_describe_construct_cached(s, r, ok, cause) ==
  /\ At(s, r, "describe_construct")
  /\ LET rec == req[s][r]
     IN IF ok
          THEN /\ Goto(s, r, [rec EXCEPT !.executor = DescribeExecutor(rec.peer.name)], "describe")
               /\ executors' = [executors EXCEPT ![s] =
                    executors_insert(@, rec.peer.name, DescribeExecutor(rec.peer.name))]
          ELSE /\ Return(s, r, rec, ErrResult("internal_error", cause))
               /\ UNCHANGED executors
  /\ UNCHANGED << acceptor, status, catalogPeers, cursors, constructed,
                  catalogLock, cursorLock, stmts, created >>

\* BigQueryQueryExecutor::new(c).await.map_err(UserError(internal_error, e.to_string()))?
do_describe_construct(s, r, ok, cause) ==
  /\ At(s, r, "describe_construct")
  /\ LET rec == req[s][r]
     IN IF ok
          THEN Goto(s, r, [rec EXCEPT !.executor = DescribeExecutor(rec.peer.name)], "describe")
          ELSE Return(s, r, rec, ErrResult("internal_error", cause))
  /\ UNCHANGED << acceptor, status, catalogPeers, cursors, executors, constructed,
                  catalogLock, cursorLock, stmts, created >>

\* QueryAssocation::Catalog: let catalog = self.catalog.lock().await; the guard lives
\* until the arm ends, across executor.describe(stmt).await.
do_describe_catalog_lock(s, r) ==
  /\ At(s, r, "describe_catalog_lock")
  /\ catalogLock[s] = 0
  /\ catalogLock' = [catalogLock EXCEPT ![s] = r]
  /\ Goto(s, r, [req[s][r] EXCEPT !.executor = CatalogExecutor], "describe")
  /\ UNCHANGED << acceptor, status, catalogPeers, cursors, executors, constructed,
                  cursorLock, stmts, created >>

\* executor.describe(stmt).await?; with or without a schema the answer is no_data.
do_describe_describe(s, r, outcome) ==
  /\ At(s, r, "describe")
  /\ catalogLock' = Unlock(catalogLock, s, r)
  /\ Return(s, r, req[s][r],
            IF outcome = "Err" THEN ErrResult("executor", "describe failed")
                               ELSE OkResult(<< NoData >>))
  /\ UNCHANGED << acceptor, status, catalogPeers, cursors, executors, constructed,
                  cursorLock, stmts, created >>

DescribeOutcomes == {"Some", "None", "Err"}

\* ------------------------------------------------------------------ extended query
Digits == << "0", "1", "2", "3", "4", "5", "6", "7", "8", "9" >>

\* to_string() of an unsigned, a signed integer, a bool and a float.
RECURSIVE nat_to_string(_)
nat_to_string(n) ==
  IF n < 10 THEN << Digits[n + 1] >>
            ELSE nat_to_string(n \div 10) \o << Digits[(n % 10) + 1] >>
int_to_string(v) == IF v < 0 THEN << "-" >> \o nat_to_string(-v) ELSE nat_to_string(v)
bool_to_string(b) == IF b THEN << "t", "r", "u", "e" >> ELSE << "f", "a", "l", "s", "e" >>
float_to_string(n, frac) ==
  int_to_string(n) \o (IF frac = 0 THEN << >> ELSE << "." >> \o nat_to_string(frac))

\* PgWireResult<String>.
RenderOk(text) == [ok |-> TRUE, text |-> text, code |-> "", message |-> ""]
RenderErr(code, message) == [ok |-> FALSE, text |-> << >>, code |-> code, message |-> message]

\* A parameter of any other type is rendered as the empty text.
parameter_to_string_lenient(portal, idx) ==
  LET param == portal.params[idx + 1]
      rendered ==
        CASE param.type \in {"VARCHAR", "TEXT"} ->
               << "'" >> \o (IF param.state = "null" THEN << >> ELSE param.text) \o << "'" >>
          [] param.state = "null" -> << >>
          [] param.type = "BOOL" -> bool_to_string(param.bool)
          [] param.type \in {"INT4", "INT8"} -> int_to_string(param.int)
          [] OTHER -> float_to_string(param.int, param.frac)
  IN IF param.type \notin {"VARCHAR", "TEXT", "BOOL", "INT4", "INT8", "FLOAT4", "FLOAT8"}
       THEN RenderOk(<< >>)
       ELSE IF param.state = "undecodable"
         THEN RenderErr("decode", "invalid parameter")
         ELSE RenderOk(rendered)

\* parameter_to_string(portal, idx), idx counted from 0: the match on the declared
\* type; portal.parameter::<T>(idx)? fails on a value it cannot decode; None is
\* rendered as '' for a string and as the empty text otherwise.
parameter_to_string(portal, idx) ==
  LET param == portal.params[idx + 1]
      rendered ==
        CASE param.type \in {"VARCHAR", "TEXT"} ->
               << "'" >> \o (IF param.state = "null" THEN << >> ELSE param.text) \o << "'" >>
          [] param.state = "null" -> << >>
          [] param.type = "BOOL" -> bool_to_string(param.bool)
          [] param.type \in {"INT4", "INT8"} -> int_to_string(param.int)
          [] OTHER -> float_to_string(param.int, param.frac)
  IN IF param.type \notin {"VARCHAR", "TEXT", "BOOL", "INT4", "INT8", "FLOAT4", "FLOAT8"}
       THEN RenderErr("22023", "unsupported_parameter_value")
       ELSE IF param.state = "undecodable"
         THEN RenderErr("decode", "invalid parameter")
         ELSE RenderOk(rendered)

\* format!("${}", i + 1)
placeholder(i) == << "$" >> \o nat_to_string(i + 1)

\* str::replace(from, to): every non-overlapping match of `from`, left to right;
\* the text put in is not searched again.
RECURSIVE replace(_, _, _)
replace(s, from, to) ==
  IF Len(s) < Len(from) THEN s
  ELSE IF SubSeq(s, 1, Len(from)) = from
    THEN to \o replace(SubSeq(s, Len(from) + 1, Len(s)), from, to)
    ELSE << Head(s) >> \o replace(Tail(s), from, to)

\* for i in 0..portal.parameter_len() { sql = sql.replace(&format!("${}", i + 1),
\* &parameter_to_string(portal, i)?); } from iteration i on: the substituted sql, or
\* the error `?` returns.
RECURSIVE substitute(_, _, _)
substitute(sql, portal, i) ==
  IF i >= Len(portal.params) THEN RenderOk(sql)
  ELSE LET rendered == parameter_to_string(portal, i)
       IN IF rendered.ok
            THEN substitute(replace(sql, placeholder(i), rendered.text), portal, i + 1)
            ELSE rendered

\* ExtendedQueryHandler::do_query up to the first await of handle_query: the
\* parameters are substituted into the prepared text, the outcome is parsed again
\* (parse_ok: whether parse_simple_sql accepts it; the statement it yields is taken
\* to be the one the prepared text was analysed to) and handed to handle_query.
do_query_extended(s, r, portal, parse_ok) ==
  /\ acceptor = "running"
  /\ status[s] = "open"
  /\ req[s][r].pc \in {"idle", "done"}
  /\ stmts < MaxStmts
  /\ stmts' = stmts + 1
  /\ LET sub == substitute(portal.query, portal, 0)
         stmt == portal.stmt
         rec == [IdleReq EXCEPT !.api = "extended", !.portal = portal,
                                !.preCursors = cursors[s], !.preExecutors = executors[s]]
     IN IF ~sub.ok
          THEN Return(s, r, rec, ErrResult(sub.code, sub.message))
          ELSE IF ~parse_ok
            THEN Return(s, r, [rec EXCEPT !.sql = sub.text],
                        ErrResult("42601", "syntax error"))
            ELSE Goto(s, r,
                      [rec EXCEPT !.sql = sub.text, !.stmt = stmt,
                         !.peer_holder = IF stmt.assoc = "Peer" THEN stmt.peer ELSE NoPeer,
                         !.peer = IF stmt.assoc = "Peer" THEN stmt.peer ELSE NoPeer],
                      first_await(stmt))
  /\ UNCHANGED << acceptor, status, catalogPeers, cursors, executors, constructed,
                  catalogLock, cursorLock, created >>

\* ------------------------------------------------------------------ specifications
\* The steps of a request that is under way.
QueryStep(s, r) ==
  \/ handle_query_CreatePeer_lock(s, r)
  \/ \E ok \in BOOLEAN, cause \in Causes : handle_query_CreatePeer(s, r, ok, cause)
  \/ handle_query_Catalog(s, r)
  \/ handle_query_PeerCursor(s, r)
  \/ handle_query_PeerCursor_catalog(s, r)
  \/ get_peer_executor(s, r)
  \/ \E ok \in BOOLEAN : get_peer_executor_construct(s, r, ok)
  \/ \E out \in ExecuteOutcomes : execute_statement(s, r, out)
  \/ execute_statement_Cursor(s, r)

DescribeStep(s, r) ==
  \/ \E ok \in BOOLEAN, cause \in Causes : do_describe_construct(s, r, ok, cause)
  \/ do_describe_catalog_lock(s, r)
  \/ \E outcome \in DescribeOutcomes : do_describe_describe(s, r, outcome)

Step(s, r) == QueryStep(s, r) \/ DescribeStep(s, r)

\* One client connects: connection 1 is the only one main's loop ever accepts.
Client == 1

AcceptClient ==
  \E catalog_ok, write_ok, shutdown_ok \in BOOLEAN :
    Accept(Client, catalog_ok, write_ok, shutdown_ok)

\* process_socket reads one message after the other on the connection's task: a
\* connection has one request under way at a time (slot 1).
Next ==
  \/ AcceptClient
  \/ \E stmt \in Statements : do_query(Client, 1, stmt)
  \/ \E stmt \in Statements : do_describe(Client, 1, stmt)
  \/ Step(Client, 1)

Spec == Init /\ [][Next]_vars

\* The handler (Arc<NexusBackend>, Send + Sync) called by several tasks at once:
\* up to MaxInflight requests of the connection under way together.
NextConcurrent ==
  \/ AcceptClient
  \/ \E r \in Requests, stmt \in Statements :
       stmts < MaxConcurrentStmts /\ do_query(Client, r, stmt)
  \/ \E r \in Requests, stmt \in Statements :
       stmts < MaxConcurrentStmts /\ do_describe(Client, r, stmt)
  \/ \E r \in Requests : Step(Client, r)

SpecConcurrent == Init /\ [][NextConcurrent]_vars

\* The prepared texts and bound parameters of the portals a client executes.
Query0 == << "x" >>
Query1 == << "x", "=", "$", "1" >>
Query2 == << "$", "1", ",", "$", "2" >>
QueryMax == << "$" >> \o nat_to_string(MaxParams) \o << ",", "$", "1" >>
ParamValues ==
  { TextParam("TEXT", << "a" >>), TextParam("TEXT", << "a", "'", "b" >>),
    TextParam("VARCHAR", << "$", "2" >>), NullParam("TEXT"), UndecodableParam("TEXT"),
    IntParam("INT4", 42), IntParam("INT8", -7), NullParam("INT4"),
    UndecodableParam("INT4"), BoolParam(TRUE), FloatParam("FLOAT8", 1, 5),
    FloatParam("FLOAT4", 2, 0), IntParam("DATE", 0) }
LaterValues == { IntParam("INT4", 42), UndecodableParam("INT8"), IntParam("DATE", 0) }
ManyParams(first, last) ==
  [i \in 1..MaxParams |-> IF i = 1 THEN first
                          ELSE IF i = MaxParams THEN last ELSE IntParam("INT4", i)]
CatalogQuery == CHOOSE st \in PeerQueryStmts : st.assoc = "Catalog"
Portals ==
  { [query |-> Query0, params |-> << >>, stmt |-> CatalogQuery] }
  \cup { [query |-> Query1, params |-> << v >>, stmt |-> CatalogQuery] : v \in ParamValues }
  \cup { [query |-> Query2, params |-> << v, w >>, stmt |-> CatalogQuery] :
           v \in ParamValues, w \in LaterValues }
  \cup { [query |-> QueryMax, params |-> ManyParams(v, w), stmt |-> CatalogQuery] :
           v \in { IntParam("INT4", 1), TextParam("TEXT", << "a" >>) }, w \in LaterValues }
  \cup { [query |-> Query1, params |-> << IntParam("INT4", 42) >>, stmt |-> st] :
           st \in Statements }

\* One client that executes portals (Bind/Execute), one at a time.
NextExtended ==
  \/ AcceptClient
  \/ \E portal \in Portals, parse_ok \in BOOLEAN :
       stmts < MaxExtendedStmts /\ do_query_extended(Client, 1, portal, parse_ok)
  \/ QueryStep(Client, 1)

SpecExtended == Init /\ [][NextExtended]_vars

\* Several clients: main accepts every connection of Sessions, each served by its
\* own task, one request at a time.
NextConnections ==
  \/ \E s \in Sessions, catalog_ok, write_ok, shutdown_ok \in BOOLEAN :
       Accept(s, catalog_ok, write_ok, shutdown_ok)
  \/ \E s \in Sessions, stmt \in Statements :
       stmts < MaxConnectionStmts /\ do_query(s, 1, stmt)
  \/ \E s \in Sessions, stmt \in Statements :
       stmts < MaxConnectionStmts /\ do_describe(s, 1, stmt)
  \/ \E s \in Sessions : Step(s, 1)

SpecConnections == Init /\ [][NextConnections]_vars

\* ------------------------------------------------------------------ properties
\* The positions of handle_query after the executor for the statement is resolved.
ResolvedPcs == {"execute", "cursor_update", "done"}

\* Request r of connection s called get_peer_executor for a peer and got its answer.
ResolvedPeer(s, r) ==
  /\ req[s][r].api = "query"
  /\ req[s][r].peer # NoPeer
  /\ req[s][r].pc \in ResolvedPcs

\* C1: within one connection serving its statements one after the other, every
\* resolution of peer p by get_peer_executor returns the handle of the first
\* construction for p, which is the cached one, and p is constructed at most once.
C1_SameExecutor ==
  \A s \in Sessions :
    /\ \A n \in PeerNames : constructed[s][n] <= 1
    /\ \A r \in Requests :
         ResolvedPeer(s, r) =>
           /\ req[s][r].executor = Handle(req[s][r].peer.name, 1)
           /\ executors_insert(executors[s], req[s][r].peer.name, req[s][r].executor)
                = executors[s]

\* C1 witness: a later statement for a peer that was already cached at its dispatch
\* got the cached handle.
C1_Witness ==
  \E s \in Sessions, r \in Requests :
    /\ ResolvedPeer(s, r)
    /\ req[s][r].peer.name \in DOMAIN req[s][r].preExecutors
    /\ req[s][r].executor = req[s][r].preExecutors[req[s][r].peer.name]

\* C2: requests of one connection that miss the cache for the same peer at the same
\* time construct the executor once and get the same handle.
C2_ConcurrentMissesSerialized ==
  \A s \in Sessions :
    /\ \A n \in PeerNames : constructed[s][n] <= 1
    /\ \A r1, r2 \in Requests :
         (ResolvedPeer(s, r1) /\ ResolvedPeer(s, r2)
            /\ req[s][r1].peer.name = req[s][r2].peer.name)
           => req[s][r1].executor = req[s][r2].executor

\* The request's executor construction failed.
ConstructionFailed(s, r) == req[s][r].fault = "unwrap on Err: executor construction"

\* C3: a failed executor construction ends the request with an error result, stores
\* nothing for the peer in the cache, and leaves the connection serving.
C3_ConstructionFailureIsError ==
  \A s \in Sessions, r \in Requests :
    ConstructionFailed(s, r) =>
      /\ req[s][r].pc = "done"
      /\ req[s][r].result.status = "err"
      /\ req[s][r].peer.name \notin DOMAIN executors[s]
      /\ status[s] = "open"

\* The request (dispatch or describe) reached the match on the config of a peer whose
\* config is a variant the server does not know, or is None.
UnrecognizedConfig(s, r) ==
  /\ req[s][r].api \in {"query", "describe"}
  /\ req[s][r].stmt.assoc = "Peer"
  /\ req[s][r].stmt.peer.config \in {"OtherConfig", "None"}
  /\ req[s][r].pc # "peer_executor"

\* C4: resolving an executor for a peer with an unrecognized or absent config gives
\* that request an error result; the handler does not panic and the connection
\* keeps serving.
C4_UnsupportedConfigIsError ==
  \A s \in Sessions, r \in Requests :
    UnrecognizedConfig(s, r) =>
      /\ req[s][r].pc = "done"
      /\ req[s][r].result.status = "err"
      /\ status[s] = "open"

\* Request r of connection s dispatches Fetch(c, n) or Close(c).
CursorStatement(s, r) ==
  /\ req[s][r].api = "query"
  /\ req[s][r].stmt.kind = "PeerCursor"
  /\ req[s][r].stmt.event \in {"Fetch", "Close"}

ClosedApplied(s, r) ==
  /\ req[s][r].api = "query"
  /\ req[s][r].pc = "done"
  /\ req[s][r].res.tag = "Closed"

\* C6: after Closed(names) every name of names is absent from the cursor table, every
\* other cursor has the entry it had before, and the result is the single
\* CLOSE CURSOR acknowledgment.
C6_ClosedRemovesExactlyNames ==
  \A s \in Sessions, r \in Requests :
    ClosedApplied(s, r) =>
      /\ \A c \in req[s][r].res.names : c \notin DOMAIN cursors[s]
      /\ \A c \in CursorNames \ req[s][r].res.names :
           /\ c \in DOMAIN cursors[s] <=> c \in DOMAIN req[s][r].preCursors
           /\ c \in DOMAIN cursors[s] => cursors[s][c] = req[s][r].preCursors[c]
      /\ req[s][r].result = OkResult(<< Execution("CLOSE CURSOR", -1) >>)

\* C6 witness: a Closed report removed a tracked cursor while another one stayed.
C6_Witness ==
  \E s \in Sessions, r \in Requests :
    /\ ClosedApplied(s, r)
    /\ req[s][r].res.names \cap DOMAIN req[s][r].preCursors # {}
    /\ cursors[s] # Empty

\* C7: a Fetch or Close on a name that is not in the cursor table, because it was
\* never declared or because it was closed, is executed on the catalog's executor
\* and builds no peer executor.
C7_UnknownCursorOnCatalog ==
  \A s \in Sessions, r \in Requests :
    /\ (CursorStatement(s, r) /\ req[s][r].pc \in ResolvedPcs
          /\ req[s][r].stmt.cursor \notin DOMAIN req[s][r].preCursors) =>
         /\ req[s][r].executor = CatalogExecutor
         /\ executors[s] = req[s][r].preExecutors
    /\ (CursorStatement(s, r) /\ req[s][r].pc = "execute"
          /\ created[s].by[req[s][r].stmt.cursor] = {}) =>
         req[s][r].executor = CatalogExecutor

\* C7 witness: a Fetch on a name that was declared on a peer and then closed is about
\* to run on the catalog's executor.
C7_Witness ==
  \E s \in Sessions, r \in Requests :
    /\ CursorStatement(s, r)
    /\ req[s][r].stmt.event = "Fetch"
    /\ req[s][r].pc = "execute"
    /\ req[s][r].stmt.cursor \in created[s].closed
    /\ req[s][r].executor = CatalogExecutor
    /\ executors[s] # Empty

\* C8: a PeerCursor statement with event CloseAll returns a response and leaves the
\* cursor table empty.
C8_CloseAllClosesEverything ==
  \A s \in Sessions, r \in Requests :
    (req[s][r].api = "query" /\ req[s][r].stmt.event = "CloseAll"
       /\ req[s][r].pc # "cursor_lock") =>
      /\ req[s][r].pc = "done"
      /\ req[s][r].result.status # "none"
      /\ cursors[s] = Empty

\* catalog.create_peer failed for the request's CreatePeer statement.
CreatePeerFailed(s, r) ==
  /\ req[s][r].api = "query"
  /\ req[s][r].stmt.kind = "PeerDDL"
  /\ req[s][r].cause # ""

\* C9: when create_peer fails the request returns the user error internal_error with
\* the cause as its message, the cursor table and the executor cache are as they
\* were, the catalog lock is free and the connection is serving.
C9_CreatePeerFailure ==
  \A s \in Sessions, r \in Requests :
    CreatePeerFailed(s, r) =>
      /\ req[s][r].pc = "done"
      /\ req[s][r].result = ErrResult("internal_error", req[s][r].cause)
      /\ cursors[s] = req[s][r].preCursors
      /\ executors[s] = req[s][r].preExecutors
      /\ catalogLock[s] = 0
      /\ status[s] = "open"

\* C9 witness: create_peer failed on a connection that tracks a cursor and caches an
\* executor.
C9_Witness ==
  \E s \in Sessions, r \in Requests :
    /\ CreatePeerFailed(s, r)
    /\ req[s][r].preCursors # Empty
    /\ req[s][r].preExecutors # Empty

\* The request's statement failed: execute returned Err, or translating its Stream or
\* Records failed.
StatementFailed(s, r) ==
  /\ req[s][r].api = "query"
  /\ req[s][r].pc = "done"
  /\ \/ req[s][r].res.tag = "Err"
     \/ req[s][r].res.tag \in {"Stream", "Records"} /\ ~req[s][r].res.convert_ok

\* C10: after a failed statement the request has returned an error, the cursor table
\* is as before, every executor cached before is still cached unchanged, both locks
\* are free and the connection is serving.
C10_FailureIsolation ==
  \A s \in Sessions, r \in Requests :
    StatementFailed(s, r) =>
      /\ req[s][r].result.status = "err"
      /\ cursors[s] = req[s][r].preCursors
      /\ \A n \in DOMAIN req[s][r].preExecutors :
           /\ n \in DOMAIN executors[s]
           /\ executors[s][n] = req[s][r].preExecutors[n]
      /\ catalogLock[s] = 0
      /\ cursorLock[s] = 0
      /\ status[s] = "open"

\* C10 witness: execute failed on a cached peer executor of a connection that tracks
\* a cursor.
C10_Witness ==
  \E s \in Sessions, r \in Requests :
    /\ StatementFailed(s, r)
    /\ req[s][r].res.tag = "Err"
    /\ req[s][r].executor.peer \in DOMAIN req[s][r].preExecutors
    /\ req[s][r].preCursors # Empty

\* Request record rec is a Describe of a PeerDDL or PeerCursor statement.
DescribesDDLOrCursor(rec) ==
  /\ rec.api = "describe"
  /\ rec.stmt.kind \in {"PeerDDL", "PeerCursor"}

\* C11: every step of a Describe of a PeerDDL or PeerCursor statement ends the
\* request with the "no data" answer; no executor is resolved, execute is not
\* called, neither lock is taken, and the catalog, the cursor table and the
\* executor cache are left as they were.
C11_DescribeDDLOrCursorNoData ==
  [][\A s \in Sessions, r \in Requests :
       (req'[s][r] # req[s][r] /\ DescribesDDLOrCursor(req'[s][r])) =>
         /\ req'[s][r].pc = "done"
         /\ req'[s][r].result = OkResult(<< NoData >>)
         /\ req'[s][r].executor = NoExecutor
         /\ req'[s][r].res = NoOutput
         /\ catalogLock'[s] # r
         /\ cursorLock'[s] # r
         /\ UNCHANGED << catalogPeers, cursors, executors, constructed, catalogLock,
                         cursorLock, created, status >>]_vars

\* C11 witness: a PeerCursor statement was described on a connection that tracks a
\* cursor and has a cached executor.
C11_Witness ==
  \E s \in Sessions, r \in Requests :
    /\ DescribesDDLOrCursor(req[s][r])
    /\ req[s][r].stmt.kind = "PeerCursor"
    /\ req[s][r].pc = "done"
    /\ cursors[s] # Empty
    /\ executors[s] # Empty

\* The number of digits a text starts with, and the number a run of digits denotes.
RECURSIVE DigitRun(_)
DigitRun(s) ==
  IF s # << >> /\ (\E d \in DOMAIN Digits : Digits[d] = Head(s))
    THEN 1 + DigitRun(Tail(s)) ELSE 0
RECURSIVE NatOf(_)
NatOf(digits) ==
  IF digits = << >> THEN 0
  ELSE 10 * NatOf(SubSeq(digits, 1, Len(digits) - 1))
       + (CHOOSE d \in DOMAIN Digits : Digits[d] = digits[Len(digits)]) - 1

\* The text in which each placeholder $k (k written with all its digits) of a bound
\* parameter is replaced by the rendering of the k-th value, and nothing else.
RECURSIVE LiteralSubstitution(_, _)
LiteralSubstitution(s, portal) ==
  IF s = << >> THEN << >>
  ELSE LET n == DigitRun(Tail(s))
           k == NatOf(SubSeq(s, 2, n + 1))
       IN IF Head(s) = "$" /\ n > 0 /\ k \in 1..Len(portal.params)
            THEN parameter_to_string(portal, k - 1).text
                 \o LiteralSubstitution(SubSeq(s, n + 2, Len(s)), portal)
            ELSE << Head(s) >> \o LiteralSubstitution(Tail(s), portal)

\* Request r executed a portal all of whose parameters were rendered.
Substituted(s, r) ==
  /\ req[s][r].api = "extended"
  /\ \A i \in 1..Len(req[s][r].portal.params) :
       parameter_to_string(req[s][r].portal, i - 1).ok

\* C12: the text the extended do_query parses and dispatches is the prepared text
\* with each placeholder $k replaced by the rendering of the k-th bound value and
\* nothing else changed, whatever the number of parameters and the bound values.
C12_SubstitutionIsLiteral ==
  \A s \in Sessions, r \in Requests :
    Substituted(s, r) =>
      req[s][r].sql = LiteralSubstitution(req[s][r].portal.query, req[s][r].portal)

\* Request r executed a portal with a parameter of a type parameter_to_string has no
\* rendering for; FirstUnsupported is the index of the first such parameter.
Unsupported(param) ==
  param.type \notin {"VARCHAR", "TEXT", "BOOL", "INT4", "INT8", "FLOAT4", "FLOAT8"}
HasUnsupported(s, r) ==
  /\ req[s][r].api = "extended"
  /\ \E i \in DOMAIN req[s][r].portal.params : Unsupported(req[s][r].portal.params[i])
FirstUnsupported(portal) ==
  CHOOSE i \in DOMAIN portal.params :
    /\ Unsupported(portal.params[i])
    /\ \A j \in 1..(i - 1) : ~Unsupported(portal.params[j])

\* The request was refused before parse_simple_sql and handle_query: no statement,
\* no executor, no execute outcome, the tables as they were, the locks free and the
\* connection serving.
RefusedBeforeDispatch(s, r) ==
  /\ req[s][r].pc = "done"
  /\ req[s][r].result.status = "err"
  /\ req[s][r].sql = << >>
  /\ req[s][r].stmt = NoStmt
  /\ req[s][r].executor = NoExecutor
  /\ req[s][r].res = NoOutput
  /\ cursors[s] = req[s][r].preCursors
  /\ executors[s] = req[s][r].preExecutors
  /\ catalogLock[s] = 0
  /\ cursorLock[s] = 0
  /\ status[s] = "open"

\* C13 as stated: a portal with a parameter of an unsupported type is refused with
\* code 22023 before the statement is parsed or dispatched.
C13_UnsupportedTypeIs22023 ==
  \A s \in Sessions, r \in Requests :
    HasUnsupported(s, r) =>
      /\ RefusedBeforeDispatch(s, r)
      /\ req[s][r].result.code = "22023"

\* C13 amended: a portal with a parameter of an unsupported type is refused before
\* the statement is parsed or dispatched; the error is the one with code 22023,
\* unless the value of a parameter before the first unsupported one fails to decode,
\* and then it is that decoding error.
C13_UnsupportedTypeRefused ==
  \A s \in Sessions, r \in Requests :
    HasUnsupported(s, r) =>
      /\ RefusedBeforeDispatch(s, r)
      /\ req[s][r].result.code =
           IF \E j \in 1..(FirstUnsupported(req[s][r].portal) - 1) :
                req[s][r].portal.params[j].state = "undecodable"
             THEN "decode" ELSE "22023"

\* C13 witness: a portal whose second parameter has an unsupported type was refused
\* with 22023 on a connection that tracks a cursor and has a cached executor.
C13_Witness ==
  \E s \in Sessions, r \in Requests :
    /\ HasUnsupported(s, r)
    /\ FirstUnsupported(req[s][r].portal) = 2
    /\ req[s][r].result.code = "22023"
    /\ req[s][r].preCursors # Empty
    /\ req[s][r].preExecutors # Empty

\* Reading a SQL string literal from just after its opening quote: '' stands for one
\* quote character, a single ' closes the literal; `rest` is the text behind it.
RECURSIVE ReadLiteral(_)
ReadLiteral(s) ==
  IF s = << >> THEN [closed |-> FALSE, value |-> << >>, rest |-> << >>]
  ELSE IF Head(s) # "'"
    THEN [ReadLiteral(Tail(s)) EXCEPT !.value = << Head(s) >> \o @]
  ELSE IF Len(s) >= 2 /\ s[2] = "'"
    THEN [ReadLiteral(SubSeq(s, 3, Len(s))) EXCEPT !.value = << "'" >> \o @]
  ELSE [closed |-> TRUE, value |-> << >>, rest |-> Tail(s)]

\* Request r executed the prepared text x=$1 with a string bound to $1.
BoundString(s, r) ==
  /\ req[s][r].api = "extended"
  /\ req[s][r].portal.query = Query1
  /\ req[s][r].portal.params[1].type \in {"VARCHAR", "TEXT"}
  /\ req[s][r].portal.params[1].state = "value"

\* C14: whatever string is bound to $1 of x=$1, the dispatched text is x= followed
\* by one string literal whose value is the bound string, with nothing behind it.
C14_BoundStringIsOneLiteral ==
  \A s \in Sessions, r \in Requests :
    BoundString(s, r) =>
      LET sql == req[s][r].sql
      IN /\ Len(sql) >= 3
         /\ SubSeq(sql, 1, 3) = << "x", "=", "'" >>
         /\ ReadLiteral(SubSeq(sql, 4, Len(sql))) =
              [closed |-> TRUE, value |-> req[s][r].portal.params[1].text, rest |-> << >>]

\* C15: when the catalog connection for an accepted socket failed, main's loop is
\* still running (it goes on to accept the later connections), whether or not the
\* fatal frame could be written and the socket shut down.
C15_AcceptorSurvivesCatalogFailure ==
  (\E s \in Sessions : status[s] = "refused") => acceptor = "running"

\* Everything a connection's NexusBackend owns.
Backend(s) ==
  << cursors[s], executors[s], constructed[s], catalogLock[s], cursorLock[s], req[s] >>

\* C16: a step of one connection's request leaves the cursor table, the executor
\* cache and the rest of the backend of every other connection as they were.
C16_ConnectionsIndependent ==
  [][\A s \in Sessions :
       req'[s] # req[s] =>
         \A t \in Sessions \ {s} : Backend(t)' = Backend(t) /\ status'[t] = status[t]]_vars

\* C16 witness: two connections track a cursor of the same name on different peers
\* (and hold an executor each).
C16_Witness ==
  \E s, t \in Sessions :
    /\ "c1" \in DOMAIN cursors[s]
    /\ "c1" \in DOMAIN cursors[t]
    /\ cursors[s]["c1"] # cursors[t]["c1"]
    /\ executors[s] # executors[t]

\* C17: while a cursor name stays in a connection's cursor table the peer it maps to
\* does not change, whatever the executors report.
C17_OwningPeerNeverChanges ==
  [][\A s \in Sessions, c \in CursorNames :
       (c \in DOMAIN cursors[s] /\ c \in DOMAIN cursors'[s]) =>
         cursors'[s][c] = cursors[s][c]]_vars

\* Request r got Created(name) from its executor and is past the cursor update.
CreatedHandled(s, r) ==
  /\ req[s][r].api \in {"query", "extended"}
  /\ req[s][r].res.tag = "Created"
  /\ req[s][r].pc \notin {"execute", "cursor_update"}

\* C18: a request whose executor returned Created(name) has returned the single
\* cursor-declared acknowledgment and the name is in the cursor table (under the
\* statement's peer, if it has one), whatever kind of statement it was.
C18_CreatedIsRegistered ==
  \A s \in Sessions, r \in Requests :
    CreatedHandled(s, r) =>
      /\ req[s][r].pc = "done"
      /\ req[s][r].result = OkResult(<< Execution("DECLARE CURSOR", -1) >>)
      /\ \A c \in req[s][r].res.names :
           /\ c \in DOMAIN cursors[s]
           /\ req[s][r].stmt.assoc = "Peer" => cursors[s][c] = req[s][r].stmt.peer

\* C19: a request that holds the cursor table's lock is not waiting for the catalog
\* lock held by another request, not waiting for an executor to be constructed and
\* not waiting for execute.
C19_CursorLockHeldBriefly ==
  \A s \in Sessions, r \in Requests :
    cursorLock[s] = r =>
      /\ ~(req[s][r].pc = "cursor_catalog" /\ catalogLock[s] \notin {0, r})
      /\ req[s][r].pc \notin {"construct", "execute"}

\* Request record rec is a Describe of a PeerQuery statement.
DescribesPeerQuery(rec) == rec.api = "describe" /\ rec.stmt.kind = "PeerQuery"

\* C20: every step of a Describe of a PeerQuery statement stays within do_describe:
\* execute is not called (no execute outcome, no position of handle_query), the only
\* executor it holds is the one it describes with (the catalog's or one built for
\* the describe), and the cursor table and the executor cache are left as they were.
C20_DescribePeerQueryNoExecute ==
  [][\A s \in Sessions, r \in Requests :
       (req'[s][r] # req[s][r] /\ DescribesPeerQuery(req'[s][r])) =>
         /\ req'[s][r].pc \in {"describe_construct", "describe_catalog_lock", "describe",
                                "done", "panicked"}
         /\ req'[s][r].res = NoOutput
         /\ req'[s][r].executor \in
              {NoExecutor, CatalogExecutor, DescribeExecutor(req'[s][r].stmt.peer.name)}
         /\ cursorLock'[s] # r
         /\ UNCHANGED << cursors, executors, constructed, created >>]_vars

\* C20 witness: a PeerQuery on a BigQuery peer was described to the end on a
\* connection that tracks a cursor and has a cached executor.
C20_Witness ==
  \E s \in Sessions, r \in Requests :
    /\ DescribesPeerQuery(req[s][r])
    /\ req[s][r].pc = "done"
    /\ req[s][r].executor = DescribeExecutor("bq")
    /\ req[s][r].result = OkResult(<< NoData >>)
    /\ cursors[s] # Empty
    /\ executors[s] # Empty

\* The positions at which a request awaits self.catalog.lock() and
\* self.peer_cursors.lock(), and the positions at which it has ended.
CatalogLockAwaits == {"ddl_lock", "catalog_executor", "cursor_catalog", "describe_catalog_lock"}
CursorLockAwaits == {"cursor_lock", "cursor_update"}
EndedPcs == {"idle", "done", "panicked"}

\* The request that request r of connection s is waiting for: the holder of the lock
\* it awaits, 0 if it awaits no lock or the lock is free.
WaitsFor(s, r) ==
  IF req[s][r].pc \in CatalogLockAwaits THEN catalogLock[s]
  ELSE IF req[s][r].pc \in CursorLockAwaits THEN cursorLock[s]
  ELSE 0

\* C21: among the requests of a connection that run together, no request holds the
\* catalog lock while it awaits the cursor table's lock (the order is cursor table,
\* then catalog), no request awaits a lock it holds itself, no two requests wait
\* for each other, and a request that has ended holds no lock.
C21_NoLockDeadlock ==
  \A s \in Sessions, r \in Requests :
    /\ catalogLock[s] = r => req[s][r].pc \notin CursorLockAwaits
    /\ WaitsFor(s, r) # r
    /\ \A q \in Requests : ~(WaitsFor(s, r) = q /\ WaitsFor(s, q) = r)
    /\ req[s][r].pc \in EndedPcs => (catalogLock[s] # r /\ cursorLock[s] # r)

\* C21 witness: a request holds the cursor table's lock and waits for the catalog
\* lock, which another request of the connection holds.
C21_Witness ==
  \E s \in Sessions, r, q \in Requests :
    /\ r # q
    /\ cursorLock[s] = r
    /\ catalogLock[s] = q
    /\ WaitsFor(s, r) = q

\* The owning peer of every entry of connection s's cursor table has an executor in
\* the connection's cache.
CursorOwnersCached(s) ==
  \A c \in DOMAIN cursors[s] : cursors[s][c].name \in DOMAIN executors[s]

\* C22: after every step the owning peer of each cursor table entry has a cached
\* executor, every executor that was in the cache is still there unchanged, and no
\* cursor statement is waiting for an executor to be constructed (the lookup for a
\* tracked cursor's peer is a cache hit).
C22_CursorOwnerAlwaysCached ==
  [][\A s \in Sessions :
       /\ CursorOwnersCached(s)'
       /\ \A n \in DOMAIN executors[s] :
            n \in DOMAIN executors'[s] /\ executors'[s][n] = executors[s][n]
       /\ \A r \in Requests :
            req'[s][r].stmt.kind = "PeerCursor" => req'[s][r].pc # "construct"]_vars

\* C22 witness: a Fetch on a tracked cursor ran on the cached executor of the
\* cursor's owning peer.
C22_Witness ==
  \E s \in Sessions, r \in Requests :
    /\ req[s][r].stmt.kind = "PeerCursor"
    /\ req[s][r].stmt.event = "Fetch"
    /\ req[s][r].pc = "done"
    /\ req[s][r].stmt.cursor \in DOMAIN cursors[s]
    /\ req[s][r].peer = cursors[s][req[s][r].stmt.cursor]
    /\ req[s][r].executor = executors[s][req[s][r].peer.name]

====
